---- MODULE Spec2Model ----
(***************************************************************************)
(* A model of the five record-transformation steps of                      *)
(* distilabel_steps_library: RewriteMessages, FormatPlaintextChatTranscript,*)
(* InsertMessage, DropEmpty and SaveToJsonl.                               *)
(*                                                                         *)
(* Python strings are sequences of one-character strings, Python dicts are *)
(* functions whose DOMAIN is the set of keys present, Python lists are     *)
(* sequences.  Each step's process method is a small state machine over a  *)
(* program counter and loop indices; an uncaught exception ends it in      *)
(* pc = "raised".                                                          *)
(***************************************************************************)
EXTENDS Integers, Sequences, FiniteSets, TLC

VARIABLES
    unit,               \* which step's process is running
    orig,               \* the batches as passed to the running process call
    inputs,             \* the same batches, as mutated in place by the step
    pc,                 \* "run" | "calling" | "done" | "raised"
    b, r, m,            \* loop positions: batch, item in batch, message in item
    out,                \* the batches yielded so far, in order
    exc,                \* the exception that ended the call, or "none"
    calls,              \* RewriteMessages: the llm.generate calls made, in order
    should_process_fn,  \* RewriteMessages: the predicate (by name)
    index,              \* InsertMessage.index
    columns,            \* DropEmpty.columns
    filtered_inputs,    \* DropEmpty: the local list being built
    file,               \* SaveToJsonl: the content of the file at file_path
    prev                \* SaveToJsonl: batch and file of the previous invocation

vars == <<unit, orig, inputs, pc, b, r, m, out, exc, calls, should_process_fn,
          index, columns, filtered_inputs, file, prev>>

----------------------------------------------------------------------------
(* Bounds of the model.                                                    *)

\* batches + items + messages of one RewriteMessages.process call
MaxRewriteSize == 6
\* batches + items + messages of one FormatPlaintextChatTranscript.process call
MaxFormatSize == 6
\* batches + items + messages of one InsertMessage.process call
MaxInsertSize == 6
\* InsertMessage.index ranges over -MaxIndex..MaxIndex
MaxIndex == 3
\* items + fields of the batch of one DropEmpty.process call
MaxFilterSize == 6
\* items of the batch of one SaveToJsonl.process call
MaxWriterBatch == 2

----------------------------------------------------------------------------
(* Python values.                                                          *)

\* the empty dict
EmptyDict == [k \in {} |-> 0]

\* d[k] = v on a dict
DictSet(d, k, v) == [kk \in DOMAIN d \cup {k} |-> IF kk = k THEN v ELSE d[kk]]

\* l[i] = v on a list
ListSet(l, i, v) == [l EXCEPT ![i] = v]

\* the sequences over S of length at most n
BSeq(S, n) == UNION {[1..k -> S] : k \in 0..n}

\* DropEmpty.columns left at its default, None
NoColumns == [set |-> FALSE, cols |-> <<>>]

\* SaveToJsonl has not completed an invocation yet
NoPrev == [has |-> FALSE, batch |-> <<>>, file |-> <<>>]

RECURSIVE Concat(_)
\* the concatenation of a sequence of strings
Concat(ss) == IF ss = <<>> THEN <<>> ELSE Head(ss) \o Concat(Tail(ss))

----------------------------------------------------------------------------
(* The calls a model run explores: every nesting of batches, items and     *)
(* messages up to a size.  An input grows by one batch, one item at the    *)
(* end of its last batch, or one message at the end of its last item.      *)

Grow(inp, Items, Messages) ==
    LET nb == Len(inp)
        lastB == inp[nb]
        nr == Len(lastB)
        lastR == lastB[nr]
    IN  {Append(inp, <<>>)}
        \cup (IF nb > 0
              THEN {ListSet(inp, nb, Append(lastB, it)) : it \in Items}
              ELSE {})
        \cup (IF nb > 0 /\ nr > 0 /\ "messages" \in DOMAIN lastR
              THEN {ListSet(inp, nb, ListSet(lastB, nr,
                        DictSet(lastR, "messages", Append(lastR["messages"], msg))))
                    : msg \in Messages}
              ELSE {})

RECURSIVE InputsUpTo(_, _, _)
InputsUpTo(n, Items, Messages) ==
    IF n = 0 THEN {<<>>}
    ELSE LET P == InputsUpTo(n - 1, Items, Messages)
         IN  P \cup UNION {Grow(inp, Items, Messages) : inp \in P}

----------------------------------------------------------------------------
(* RewriteMessages (chat/rewrite_messages.py)                              *)

target_role == <<"a">>
instructions == <<"i">>

\* the user's should_process_fn, one of two pure predicates
ApplyPredicate(fn, content) ==
    CASE fn = "always" -> TRUE
      [] fn = "nonempty" -> Len(content) > 0

\* message.get(key, default)
Get(d, key, default) == IF key \in DOMAIN d THEN d[key] ELSE default

\* Eligible with the role test left out
Eligible_AnyRole(fn, message) ==
    ApplyPredicate(fn, Get(message, "content", <<>>))

\* the condition of the if at lines 77-81; a missing role reads as None,
\* which equals no target_role string
Eligible(fn, message) ==
    /\ "role" \in DOMAIN message
    /\ message["role"] = target_role
    /\ ApplyPredicate(fn, Get(message, "content", <<>>))

\* the backtick character (the one character a TLA+ string cannot hold)
Backtick == "BACKTICK"

\* the f-string of line 82: three backticks, message['content'], three
\* backticks, two newlines, self.instructions
Prompt(content) ==
    <<Backtick, Backtick, Backtick>> \o content
        \o <<Backtick, Backtick, Backtick, "\n", "\n">> \o instructions

RewriteMessageShapes ==
    { [role |-> <<"a">>, content |-> <<"x">>],
      [role |-> <<"u">>, content |-> <<"x">>],
      [role |-> <<"a">>, content |-> <<>>],
      [role |-> <<"a">>],
      [content |-> <<"x">>] }

RewriteItems == { [messages |-> <<>>], [id |-> <<"1">>] }

\* what llm.generate may return
Generations == { <<"g">> }

InitCommon ==
    /\ inputs = orig
    /\ pc = "run"
    /\ b = 1 /\ r = 1 /\ m = 1
    /\ out = <<>>
    /\ exc = "none"
    /\ calls = <<>>
    /\ filtered_inputs = <<>>
    /\ file = <<>>
    /\ prev = NoPrev

InitRewrite ==
    /\ unit = "rewrite"
    /\ orig \in InputsUpTo(MaxRewriteSize, RewriteItems, RewriteMessageShapes)
    /\ should_process_fn \in {"always", "nonempty"}
    /\ index = 0
    /\ columns = NoColumns
    /\ InitCommon

\* the messages the inner loop iterates: item.get("messages", [])
RwMessages(item) == Get(item, "messages", <<>>)

RwInLoop ==
    /\ unit = "rewrite" /\ pc = "run"
    /\ b <= Len(inputs) /\ r <= Len(inputs[b])

\* the for over inputs is exhausted: the generator returns
RewriteMessages_Return ==
    /\ unit = "rewrite" /\ pc = "run"
    /\ b > Len(inputs)
    /\ pc' = "done"
    /\ UNCHANGED <<unit, orig, inputs, b, r, m, out, exc, calls,
                   should_process_fn, index, columns, filtered_inputs, file, prev>>

\* the for over input_batch is exhausted: yield input_batch
RewriteMessages_Yield ==
    /\ unit = "rewrite" /\ pc = "run"
    /\ b <= Len(inputs) /\ r > Len(inputs[b])
    /\ out' = Append(out, inputs[b])
    /\ b' = b + 1 /\ r' = 1 /\ m' = 1
    /\ UNCHANGED <<unit, orig, inputs, pc, exc, calls,
                   should_process_fn, index, columns, filtered_inputs, file, prev>>

\* the for over messages is exhausted: next item
RewriteMessages_NextItem ==
    /\ RwInLoop
    /\ m > Len(RwMessages(inputs[b][r]))
    /\ r' = r + 1 /\ m' = 1
    /\ UNCHANGED <<unit, orig, inputs, pc, b, out, exc, calls,
                   should_process_fn, index, columns, filtered_inputs, file, prev>>

\* the if is false: the message is left alone
RewriteMessages_Skip ==
    /\ RwInLoop
    /\ m <= Len(RwMessages(inputs[b][r]))
    /\ ~Eligible(should_process_fn, RwMessages(inputs[b][r])[m])
    /\ m' = m + 1
    /\ UNCHANGED <<unit, orig, inputs, pc, b, r, out, exc, calls,
                   should_process_fn, index, columns, filtered_inputs, file, prev>>

\* the if is true and message['content'] exists: the prompt is built and
\* llm.generate is entered
RewriteMessages_Call ==
    /\ RwInLoop
    /\ m <= Len(RwMessages(inputs[b][r]))
    /\ LET message == RwMessages(inputs[b][r])[m]
       IN  /\ Eligible(should_process_fn, message)
           /\ "content" \in DOMAIN message
           /\ calls' = Append(calls, [at |-> <<b, r, m>>,
                                      prompt |-> Prompt(message["content"]),
                                      result |-> "pending"])
    /\ pc' = "calling"
    /\ UNCHANGED <<unit, orig, inputs, b, r, m, out, exc,
                   should_process_fn, index, columns, filtered_inputs, file, prev>>

\* the if is true and the message has no content key: message['content']
\* raises KeyError
RewriteMessages_KeyError ==
    /\ RwInLoop
    /\ m <= Len(RwMessages(inputs[b][r]))
    /\ LET message == RwMessages(inputs[b][r])[m]
       IN  /\ Eligible(should_process_fn, message)
           /\ "content" \notin DOMAIN message
    /\ pc' = "raised" /\ exc' = "KeyError('content')"
    /\ UNCHANGED <<unit, orig, inputs, b, r, m, out, calls,
                   should_process_fn, index, columns, filtered_inputs, file, prev>>

\* the message at (b, r, m) with its content replaced
SetContent(inp, bi, ri, mi, generation) ==
    LET item == inp[bi][ri]
        msgs == item["messages"]
    IN  ListSet(inp, bi, ListSet(inp[bi], ri,
            DictSet(item, "messages",
                ListSet(msgs, mi, DictSet(msgs[mi], "content", generation)))))

\* RewriteMessages_Generated staying on the message it has just rewritten
RewriteMessages_Generated_Revisit ==
    /\ unit = "rewrite" /\ pc = "calling"
    /\ \E generation \in Generations :
        /\ inputs' = SetContent(inputs, b, r, m, generation)
        /\ calls' = ListSet(calls, Len(calls),
                            [calls[Len(calls)] EXCEPT !.result = generation])
    /\ pc' = "run"
    /\ UNCHANGED <<unit, orig, b, r, m, out, exc,
                   should_process_fn, index, columns, filtered_inputs, file, prev>>

\* llm.generate returns: message["content"] = generation
RewriteMessages_Generated ==
    /\ unit = "rewrite" /\ pc = "calling"
    /\ \E generation \in Generations :
        /\ inputs' = SetContent(inputs, b, r, m, generation)
        /\ calls' = ListSet(calls, Len(calls),
                            [calls[Len(calls)] EXCEPT !.result = generation])
    /\ pc' = "run"
    /\ m' = m + 1
    /\ UNCHANGED <<unit, orig, b, r, out, exc,
                   should_process_fn, index, columns, filtered_inputs, file, prev>>

\* RewriteMessages_GenerateFails catching the failure and going on with an
\* empty content
RewriteMessages_GenerateFails_Fallback ==
    /\ unit = "rewrite" /\ pc = "calling"
    /\ inputs' = SetContent(inputs, b, r, m, <<>>)
    /\ calls' = ListSet(calls, Len(calls),
                        [calls[Len(calls)] EXCEPT !.result = "failed"])
    /\ pc' = "run" /\ exc' = "GenerateError"
    /\ m' = m + 1
    /\ UNCHANGED <<unit, orig, b, r, out,
                   should_process_fn, index, columns, filtered_inputs, file, prev>>

\* llm.generate raises: nothing catches it
RewriteMessages_GenerateFails ==
    /\ unit = "rewrite" /\ pc = "calling"
    /\ calls' = ListSet(calls, Len(calls),
                        [calls[Len(calls)] EXCEPT !.result = "failed"])
    /\ pc' = "raised" /\ exc' = "GenerateError"
    /\ UNCHANGED <<unit, orig, inputs, b, r, m, out,
                   should_process_fn, index, columns, filtered_inputs, file, prev>>

NextRewrite ==
    \/ RewriteMessages_Return
    \/ RewriteMessages_Yield
    \/ RewriteMessages_NextItem
    \/ RewriteMessages_Skip
    \/ RewriteMessages_Call
    \/ RewriteMessages_KeyError
    \/ RewriteMessages_Generated
    \/ RewriteMessages_GenerateFails

SpecRewrite == InitRewrite /\ [][NextRewrite]_vars

----------------------------------------------------------------------------
(* FormatPlaintextChatTranscript (chat/chat_transcript.py)                 *)

RECURSIVE Join(_, _)
\* sep.join(parts)
Join(sep, parts) ==
    IF parts = <<>> THEN <<>>
    ELSE IF Len(parts) = 1 THEN parts[1]
    ELSE parts[1] \o sep \o Join(sep, Tail(parts))

\* FormatLine with no space after the colon
FormatLine_NoSpace(msg) == msg["role"] \o <<":">> \o msg["content"]

\* f"{msg['role']}: {msg['content']}"
FormatLine(msg) == msg["role"] \o <<":", " ">> \o msg["content"]

\* "\n".join(... for msg in item["messages"])
Transcript(messages) ==
    Join(<<"\n">>, [i \in 1..Len(messages) |-> FormatLine(messages[i])])

\* the first key the generator expression fails to find, or "none"
FormatMissingKey(item) ==
    IF "messages" \notin DOMAIN item THEN "messages"
    ELSE LET msgs == item["messages"]
             bad == {i \in 1..Len(msgs) : DOMAIN msgs[i] # {"role", "content"}}
         IN  IF bad = {} THEN "none"
             ELSE LET i == CHOOSE j \in bad : \A k \in bad : j <= k
                  IN  IF "role" \notin DOMAIN msgs[i] THEN "role" ELSE "content"

FormatMessageShapes ==
    { [role |-> <<"u">>, content |-> <<"x">>],
      [role |-> <<"a">>, content |-> <<>>],
      [role |-> <<"u">>, content |-> <<"x", "\n", "y">>],
      [role |-> <<"a">>],
      [content |-> <<"x">>] }

FormatItems == { [messages |-> <<>>, id |-> <<"1">>], [id |-> <<"1">>] }

InitFormat ==
    /\ unit = "format"
    /\ orig \in InputsUpTo(MaxFormatSize, FormatItems, FormatMessageShapes)
    /\ should_process_fn = "none"
    /\ index = 0
    /\ columns = NoColumns
    /\ InitCommon

\* the for over inputs is exhausted: the generator returns
FormatPlaintextChatTranscript_Return ==
    /\ unit = "format" /\ pc = "run"
    /\ b > Len(inputs)
    /\ pc' = "done"
    /\ UNCHANGED <<unit, orig, inputs, b, r, m, out, exc, calls,
                   should_process_fn, index, columns, filtered_inputs, file, prev>>

\* the for over input is exhausted: yield input
FormatPlaintextChatTranscript_Yield ==
    /\ unit = "format" /\ pc = "run"
    /\ b <= Len(inputs) /\ r > Len(inputs[b])
    /\ out' = Append(out, inputs[b])
    /\ b' = b + 1 /\ r' = 1
    /\ UNCHANGED <<unit, orig, inputs, pc, m, exc, calls,
                   should_process_fn, index, columns, filtered_inputs, file, prev>>

\* item["transcript"] = the joined lines
FormatPlaintextChatTranscript_Item ==
    /\ unit = "format" /\ pc = "run"
    /\ b <= Len(inputs) /\ r <= Len(inputs[b])
    /\ FormatMissingKey(inputs[b][r]) = "none"
    /\ inputs' = ListSet(inputs, b, ListSet(inputs[b], r,
                    DictSet(inputs[b][r], "transcript",
                            Transcript(inputs[b][r]["messages"]))))
    /\ r' = r + 1
    /\ UNCHANGED <<unit, orig, pc, b, m, out, exc, calls,
                   should_process_fn, index, columns, filtered_inputs, file, prev>>

\* a subscript of the right-hand side raises KeyError before the assignment
FormatPlaintextChatTranscript_KeyError ==
    /\ unit = "format" /\ pc = "run"
    /\ b <= Len(inputs) /\ r <= Len(inputs[b])
    /\ FormatMissingKey(inputs[b][r]) # "none"
    /\ pc' = "raised"
    /\ exc' = "KeyError('" \o FormatMissingKey(inputs[b][r]) \o "')"
    /\ UNCHANGED <<unit, orig, inputs, b, r, m, out, calls,
                   should_process_fn, index, columns, filtered_inputs, file, prev>>

NextFormat ==
    \/ FormatPlaintextChatTranscript_Return
    \/ FormatPlaintextChatTranscript_Yield
    \/ FormatPlaintextChatTranscript_Item
    \/ FormatPlaintextChatTranscript_KeyError

SpecFormat == InitFormat /\ [][NextFormat]_vars

----------------------------------------------------------------------------
(* InsertMessage (chat/insert_message.py)                                  *)

role == <<"s">>

\* ListInsert taking a negative index for 0
ListInsert_NoNegative(l, i, x) ==
    LET n == Len(l)
        w2 == IF i < 0 THEN 0 ELSE i
        where == IF w2 > n THEN n ELSE w2
    IN  SubSeq(l, 1, where) \o <<x>> \o SubSeq(l, where + 1, n)

\* list.insert(i, x): a negative i counts from the end, and an i outside
\* the list is clamped to its ends
ListInsert(l, i, x) ==
    LET n == Len(l)
        w1 == IF i < 0 THEN i + n ELSE i
        w2 == IF w1 < 0 THEN 0 ELSE w1
        where == IF w2 > n THEN n ELSE w2
    IN  SubSeq(l, 1, where) \o <<x>> \o SubSeq(l, where + 1, n)

\* the first key lines 98-101 fail to find, or "none"
InsertMissingKey(item) ==
    IF "content" \notin DOMAIN item THEN "content"
    ELSE IF "messages" \notin DOMAIN item THEN "messages"
    ELSE "none"

InsertMessageShapes ==
    { [role |-> <<"u">>, content |-> <<"x">>],
      [role |-> <<"a">>, content |-> <<"y">>] }

InsertItems ==
    { [messages |-> <<>>, content |-> <<"c">>],
      [content |-> <<"c">>],
      [messages |-> <<>>] }

InitInsert ==
    /\ unit = "insert"
    /\ orig \in InputsUpTo(MaxInsertSize, InsertItems, InsertMessageShapes)
    /\ should_process_fn = "none"
    /\ index \in (0 - MaxIndex)..MaxIndex
    /\ columns = NoColumns
    /\ InitCommon

\* the for over inputs is exhausted: the generator returns
InsertMessage_Return ==
    /\ unit = "insert" /\ pc = "run"
    /\ b > Len(inputs)
    /\ pc' = "done"
    /\ UNCHANGED <<unit, orig, inputs, b, r, m, out, exc, calls,
                   should_process_fn, index, columns, filtered_inputs, file, prev>>

\* the for over input is exhausted: yield input
InsertMessage_Yield ==
    /\ unit = "insert" /\ pc = "run"
    /\ b <= Len(inputs) /\ r > Len(inputs[b])
    /\ out' = Append(out, inputs[b])
    /\ b' = b + 1 /\ r' = 1
    /\ UNCHANGED <<unit, orig, inputs, pc, m, exc, calls,
                   should_process_fn, index, columns, filtered_inputs, file, prev>>

\* new_message is built, inserted into a copy of item["messages"], and the
\* copy is stored as item["messages"]
InsertMessage_Item ==
    /\ unit = "insert" /\ pc = "run"
    /\ b <= Len(inputs) /\ r <= Len(inputs[b])
    /\ InsertMissingKey(inputs[b][r]) = "none"
    /\ LET item == inputs[b][r]
           new_message == [role |-> role, content |-> item["content"]]
           messages == ListInsert(item["messages"], index, new_message)
       IN  inputs' = ListSet(inputs, b, ListSet(inputs[b], r,
                        DictSet(item, "messages", messages)))
    /\ r' = r + 1
    /\ UNCHANGED <<unit, orig, pc, b, m, out, exc, calls,
                   should_process_fn, index, columns, filtered_inputs, file, prev>>

\* InsertMessage_KeyError undoing the items already handled
InsertMessage_KeyError_Rollback ==
    /\ unit = "insert" /\ pc = "run"
    /\ b <= Len(inputs) /\ r <= Len(inputs[b])
    /\ InsertMissingKey(inputs[b][r]) # "none"
    /\ pc' = "raised"
    /\ exc' = "KeyError('" \o InsertMissingKey(inputs[b][r]) \o "')"
    /\ inputs' = orig
    /\ UNCHANGED <<unit, orig, b, r, m, out, calls,
                   should_process_fn, index, columns, filtered_inputs, file, prev>>

\* item["content"] or item["messages"] raises KeyError
InsertMessage_KeyError ==
    /\ unit = "insert" /\ pc = "run"
    /\ b <= Len(inputs) /\ r <= Len(inputs[b])
    /\ InsertMissingKey(inputs[b][r]) # "none"
    /\ pc' = "raised"
    /\ exc' = "KeyError('" \o InsertMissingKey(inputs[b][r]) \o "')"
    /\ UNCHANGED <<unit, orig, inputs, b, r, m, out, calls,
                   should_process_fn, index, columns, filtered_inputs, file, prev>>

NextInsert ==
    \/ InsertMessage_Return
    \/ InsertMessage_Yield
    \/ InsertMessage_Item
    \/ InsertMessage_KeyError

SpecInsert == InitInsert /\ [][NextInsert]_vars

\* runs of the two steps that read message keys permissively or not
SpecFormatRewrite ==
    (InitFormat \/ InitRewrite) /\ [][NextFormat \/ NextRewrite]_vars

\* runs of the two steps that need fields of the item
SpecFormatInsert ==
    (InitFormat \/ InitInsert) /\ [][NextFormat \/ NextInsert]_vars

----------------------------------------------------------------------------
(* DropEmpty (drop_empty.py)                                               *)
(*                                                                         *)
(* A field value is tagged with its Python type: None, str, int or list.   *)

None == [t |-> "None"]
StrVal(chars) == [t |-> "str", s |-> chars]
IntVal(n) == [t |-> "int", n |-> n]
ListVal(elems) == [t |-> "list", l |-> elems]

Digit(d) == <<"0", "1", "2", "3", "4", "5", "6", "7", "8", "9">>[d + 1]

RECURSIVE Digits(_)
Digits(n) == IF n < 10 THEN <<Digit(n)>> ELSE Digits(n \div 10) \o <<Digit(n % 10)>>

RECURSIVE Str(_)
\* str(value); the elements of a list are ints here, whose repr is their str
Str(v) ==
    CASE v.t = "None" -> <<"N", "o", "n", "e">>
      [] v.t = "str" -> v.s
      [] v.t = "int" -> Digits(v.n)
      [] v.t = "list" ->
            <<"[">> \o Join(<<",", " ">>, [i \in 1..Len(v.l) |-> Str(v.l[i])]) \o <<"]">>

Whitespace == {" ", "\t", "\n", "\r"}

RECURSIVE LStrip(_)
LStrip(s) == IF s # <<>> /\ Head(s) \in Whitespace THEN LStrip(Tail(s)) ELSE s

RECURSIVE RStrip(_)
RStrip(s) ==
    IF s # <<>> /\ s[Len(s)] \in Whitespace THEN RStrip(SubSeq(s, 1, Len(s) - 1)) ELSE s

\* str.strip()
Strip(s) == RStrip(LStrip(s))

\* self.columns if self.columns is not None else item.keys()
ColumnsToCheck(cols, item) ==
    IF cols.set THEN {cols.cols[i] : i \in 1..Len(cols.cols)} ELSE DOMAIN item

\* IsEmptyValue without the strip
IsEmptyValue_NoStrip(v) == IF v.t # "None" THEN Str(v) = <<>> ELSE TRUE

\* the element of the generator expression for col
IsEmptyValue(v) == IF v.t # "None" THEN Strip(Str(v)) = <<>> ELSE TRUE

\* has_empty, lines 115-119
HasEmpty(cols, item) ==
    \E col \in ColumnsToCheck(cols, item) :
        col \in DOMAIN item /\ IsEmptyValue(item[col])

FilterValues ==
    { None, StrVal(<<>>), StrVal(<<" ", "\t">>), StrVal(<<" ", "x", " ">>),
      IntVal(0), ListVal(<<>>) }

FilterColumnNames == {"a", "b"}

\* a batch grows by one item with no field, or one field on its last item
FilterGrow(batch) ==
    {Append(batch, EmptyDict)}
    \cup (IF batch = <<>> THEN {}
          ELSE {ListSet(batch, Len(batch), DictSet(batch[Len(batch)], col, v)) :
                    col \in FilterColumnNames \ DOMAIN batch[Len(batch)],
                    v \in FilterValues})

RECURSIVE FilterBatchesUpTo(_)
FilterBatchesUpTo(n) ==
    IF n = 0 THEN {<<>>}
    ELSE LET P == FilterBatchesUpTo(n - 1)
         IN  P \cup UNION {FilterGrow(batch) : batch \in P}

FilterColumns ==
    {NoColumns} \cup
    { [set |-> TRUE, cols |-> cs] :
        cs \in {<<>>, <<"a">>, <<"b">>, <<"a", "b">>, <<"c">>} }

InitFilter ==
    /\ unit = "filter"
    /\ \E batch \in FilterBatchesUpTo(MaxFilterSize) : orig = <<batch>>
    /\ should_process_fn = "none"
    /\ index = 0
    /\ columns \in FilterColumns
    /\ InitCommon

\* has_empty is false: filtered_inputs.append(item)
DropEmpty_Keep ==
    /\ unit = "filter" /\ pc = "run"
    /\ r <= Len(inputs[1])
    /\ ~HasEmpty(columns, inputs[1][r])
    /\ filtered_inputs' = Append(filtered_inputs, inputs[1][r])
    /\ r' = r + 1
    /\ UNCHANGED <<unit, orig, inputs, pc, b, m, out, exc, calls,
                   should_process_fn, index, columns, file, prev>>

\* has_empty is true: the item is passed over
DropEmpty_Drop ==
    /\ unit = "filter" /\ pc = "run"
    /\ r <= Len(inputs[1])
    /\ HasEmpty(columns, inputs[1][r])
    /\ r' = r + 1
    /\ UNCHANGED <<unit, orig, inputs, pc, b, m, out, exc, calls,
                   should_process_fn, index, columns, filtered_inputs, file, prev>>

\* the for is exhausted: yield filtered_inputs
DropEmpty_Yield ==
    /\ unit = "filter" /\ pc = "run"
    /\ r > Len(inputs[1])
    /\ out' = Append(out, filtered_inputs)
    /\ pc' = "done"
    /\ UNCHANGED <<unit, orig, inputs, b, r, m, exc, calls,
                   should_process_fn, index, columns, filtered_inputs, file, prev>>

NextFilter ==
    \/ DropEmpty_Keep
    \/ DropEmpty_Drop
    \/ DropEmpty_Yield

SpecFilter == InitFilter /\ [][NextFilter]_vars


----------------------------------------------------------------------------
(* SaveToJsonl (chat/save_to_jsonl.py)                                     *)
(*                                                                         *)
(* Besides None, str, int and list, a value may be a tuple or a dict; a    *)
(* dict is the sequence of its <<key, value>> pairs, in insertion order.   *)

TupleVal(elems) == [t |-> "tuple", l |-> elems]
DictVal(pairs) == [t |-> "dict", kv |-> pairs]

\* the escapes json.dumps applies to the characters of a string
EscapeChar(c) ==
    CASE c = "\"" -> <<"\\", "\"">>
      [] c = "\\" -> <<"\\", "\\">>
      [] c = "\n" -> <<"\\", "n">>
      [] c = "\t" -> <<"\\", "t">>
      [] c = "\r" -> <<"\\", "r">>
      [] OTHER -> <<c>>

JsonString(chars) ==
    <<"\"">> \o Concat([i \in 1..Len(chars) |-> EscapeChar(chars[i])]) \o <<"\"">>

RECURSIVE Dumps(_)
\* json.dumps(value, ensure_ascii=False)
Dumps(v) ==
    CASE v.t = "None" -> <<"n", "u", "l", "l">>
      [] v.t = "str" -> JsonString(v.s)
      [] v.t = "int" -> Digits(v.n)
      [] v.t \in {"list", "tuple"} ->
            <<"[">> \o Join(<<",", " ">>, [i \in 1..Len(v.l) |-> Dumps(v.l[i])]) \o <<"]">>
      [] v.t = "dict" ->
            <<"{">> \o Join(<<",", " ">>,
                            [i \in 1..Len(v.kv) |->
                                JsonString(v.kv[i][1]) \o <<":", " ">> \o Dumps(v.kv[i][2])])
                   \o <<"}">>

\* input_item.get("messages")
ItemMessages(input_item) == Get(input_item, "messages", None)

\* ShouldWrite with no test at all
ShouldWrite_Always(messages) == TRUE

\* messages is not None
ShouldWrite(messages) == messages.t # "None"

\* if not isinstance(messages, list): messages = [messages]
EnsureList(messages) ==
    IF messages.t = "list" THEN messages ELSE ListVal(<<messages>>)

\* json.dumps({"messages": messages}, ensure_ascii=False) + "\n"
JsonLine(messages) ==
    Dumps(DictVal(<< << <<"m", "e", "s", "s", "a", "g", "e", "s">>, messages >> >>))
        \o <<"\n">>

Message(rolechars, contentchars) ==
    DictVal(<< << <<"r", "o", "l", "e">>, StrVal(rolechars) >>,
               << <<"c", "o", "n", "t", "e", "n", "t">>, StrVal(contentchars) >> >>)

WriterValues ==
    { None,
      ListVal(<<Message(<<"u">>, <<"h", "i">>), Message(<<"a">>, <<"y", "o">>)>>),
      TupleVal(<<Message(<<"u">>, <<"h", "i">>)>>),
      StrVal(<<"h", "\n">>) }

WriterItems == { [id |-> IntVal(1)] } \cup { [messages |-> v] : v \in WriterValues }

\* what the file at file_path may hold before the first invocation
OldFiles == { <<>>, <<"o", "l", "d", "\n">> }

InitWriter ==
    /\ unit = "writer"
    /\ orig = <<>> /\ inputs = <<>>
    /\ pc = "idle"
    /\ b = 1 /\ r = 1 /\ m = 1
    /\ out = <<>>
    /\ exc = "none"
    /\ calls = <<>>
    /\ should_process_fn = "none"
    /\ index = 0
    /\ columns = NoColumns
    /\ filtered_inputs = <<>>
    /\ file \in OldFiles
    /\ prev = NoPrev

\* SaveToJsonl_Open opening the file for append
SaveToJsonl_Open_Append ==
    /\ unit = "writer" /\ pc \in {"idle", "done"}
    /\ \E batch \in BSeq(WriterItems, MaxWriterBatch) :
        /\ orig' = <<batch>>
        /\ inputs' = <<batch>>
    /\ prev' = IF pc = "done"
               THEN [has |-> TRUE, batch |-> inputs[1], file |-> file]
               ELSE prev
    /\ calls' = <<>>
    /\ out' = <<>>
    /\ r' = 1
    /\ pc' = "run"
    /\ UNCHANGED <<unit, b, m, exc, should_process_fn, index, columns,
                   filtered_inputs, file>>

\* process is invoked on a batch: open(self.file_path, "w") truncates the file
SaveToJsonl_Open ==
    /\ unit = "writer" /\ pc \in {"idle", "done"}
    /\ \E batch \in BSeq(WriterItems, MaxWriterBatch) :
        /\ orig' = <<batch>>
        /\ inputs' = <<batch>>
    /\ prev' = IF pc = "done"
               THEN [has |-> TRUE, batch |-> inputs[1], file |-> file]
               ELSE prev
    /\ file' = <<>>
    /\ calls' = <<>>
    /\ out' = <<>>
    /\ r' = 1
    /\ pc' = "run"
    /\ UNCHANGED <<unit, b, m, exc, should_process_fn, index, columns, filtered_inputs>>

\* messages is not None: one f.write of the line
SaveToJsonl_Write ==
    /\ unit = "writer" /\ pc = "run"
    /\ r <= Len(inputs[1])
    /\ LET messages == ItemMessages(inputs[1][r])
       IN  /\ ShouldWrite(messages)
           /\ file' = file \o JsonLine(EnsureList(messages))
           /\ calls' = Append(calls, [at |-> r, text |-> JsonLine(EnsureList(messages))])
    /\ r' = r + 1
    /\ UNCHANGED <<unit, orig, inputs, pc, b, m, out, exc,
                   should_process_fn, index, columns, filtered_inputs, prev>>

\* messages is None: nothing is written for the item
SaveToJsonl_Skip ==
    /\ unit = "writer" /\ pc = "run"
    /\ r <= Len(inputs[1])
    /\ ~ShouldWrite(ItemMessages(inputs[1][r]))
    /\ r' = r + 1
    /\ UNCHANGED <<unit, orig, inputs, pc, b, m, out, exc, calls,
                   should_process_fn, index, columns, filtered_inputs, file, prev>>

\* the for is exhausted: the file is closed and inputs is yielded
SaveToJsonl_Yield ==
    /\ unit = "writer" /\ pc = "run"
    /\ r > Len(inputs[1])
    /\ out' = Append(out, inputs[1])
    /\ pc' = "done"
    /\ UNCHANGED <<unit, orig, inputs, b, r, m, exc, calls,
                   should_process_fn, index, columns, filtered_inputs, file, prev>>

NextWriter ==
    \/ SaveToJsonl_Open
    \/ SaveToJsonl_Write
    \/ SaveToJsonl_Skip
    \/ SaveToJsonl_Yield

SpecWriter == InitWriter /\ [][NextWriter]_vars


----------------------------------------------------------------------------
(* Claims about RewriteMessages.                                           *)

\* every (batch, item, message) position of an input
Positions(inp) ==
    { <<bi, ri, mi>> \in (1..Len(inp)) \X (1..MaxRewriteSize) \X (1..MaxRewriteSize) :
        /\ ri <= Len(inp[bi])
        /\ mi <= Len(Get(inp[bi][ri], "messages", <<>>)) }

MessageAt(inp, p) == inp[p[1]][p[2]]["messages"][p[3]]

\* p comes before q in batch, item, message order
Before(p, q) ==
    \/ p[1] < q[1]
    \/ p[1] = q[1] /\ p[2] < q[2]
    \/ p[1] = q[1] /\ p[2] = q[2] /\ p[3] < q[3]

\* the claims' notion of an eligible message, on its original content: the
\* role is target_role and the predicate holds of the content (a missing
\* content reads as the empty string)
Targeted(p) ==
    LET msg == MessageAt(orig, p)
    IN  /\ "role" \in DOMAIN msg
        /\ msg["role"] = <<"a">>
        /\ \/ should_process_fn = "always"
           \/ should_process_fn = "nonempty" /\ "content" \in DOMAIN msg
                                           /\ msg["content"] # <<>>

\* the prompt the claims expect for a content
ExpectedPrompt(content) ==
    <<Backtick, Backtick, Backtick>> \o content
        \o <<Backtick, Backtick, Backtick>> \o <<"\n", "\n">> \o <<"i">>

\* C1: in every batch RewriteMessages.process has yielded, every item has
\* the messages it came with, in the same number and with the same roles;
\* a message that is not targeted is exactly as it came; a targeted message
\* has as content what generate returned for the prompt made of its
\* original content in triple backticks, a blank line and the instructions.
C1_RewriterSelectivity ==
    unit = "rewrite" =>
        /\ \A bi \in 1..Len(out) :
            /\ Len(out[bi]) = Len(orig[bi])
            /\ \A ri \in 1..Len(out[bi]) :
                /\ DOMAIN out[bi][ri] = DOMAIN orig[bi][ri]
                /\ Len(Get(out[bi][ri], "messages", <<>>))
                     = Len(Get(orig[bi][ri], "messages", <<>>))
        /\ \A p \in Positions(orig) :
            p[1] <= Len(out) =>
                LET before == MessageAt(orig, p)
                    after == MessageAt(out, p)
                IN  /\ DOMAIN after = DOMAIN before
                    /\ "role" \in DOMAIN before => after["role"] = before["role"]
                    /\ ~Targeted(p) => after = before
                    /\ Targeted(p) =>
                        \E i \in 1..Len(calls) :
                            /\ calls[i].at = p
                            /\ calls[i].prompt = ExpectedPrompt(before["content"])
                            /\ calls[i].result = after["content"]

\* a yielded batch holds a rewritten message after a message of another
\* role and before a message the predicate rejects, both as they came
C1_Witness ==
    /\ unit = "rewrite" /\ pc = "done" /\ should_process_fn = "nonempty"
    /\ \E p, q, s \in Positions(orig) :
        /\ p[1] = q[1] /\ p[2] = q[2] /\ p[3] < q[3]
        /\ s[1] = q[1] /\ s[2] = q[2] /\ q[3] < s[3]
        /\ MessageAt(orig, p) = [role |-> <<"u">>, content |-> <<"x">>]
        /\ MessageAt(out, p) = MessageAt(orig, p)
        /\ Targeted(q)
        /\ MessageAt(out, q) = [role |-> <<"a">>, content |-> <<"g">>]
        /\ MessageAt(orig, s) = [role |-> <<"a">>, content |-> <<>>]
        /\ MessageAt(out, s) = MessageAt(orig, s)

\* C2: the generate calls are calls for targeted messages only, in batch,
\* item, message order with no message called for twice; a call is entered
\* only when every earlier call has returned; and when process ends without
\* a failure every targeted message has had its call.
C2_RewriterCallOrder ==
    unit = "rewrite" =>
        /\ \A i \in 1..Len(calls) :
            /\ calls[i].at \in Positions(orig)
            /\ Targeted(calls[i].at)
            /\ i < Len(calls) =>
                /\ calls[i].result \in Generations
                /\ Before(calls[i].at, calls[i + 1].at)
        /\ pc = "done" =>
            /\ \A p \in Positions(orig) :
                Targeted(p) => \E i \in 1..Len(calls) : calls[i].at = p
            /\ \A i \in 1..Len(calls) : calls[i].result \in Generations

\* a run that ended normally made two calls, the first in an earlier
\* batch than the second
C2_Witness ==
    /\ unit = "rewrite" /\ pc = "done"
    /\ Len(calls) = 2
    /\ calls[1].at[1] < calls[2].at[1]

\* C3: when generate fails, process has ended with that failure and does
\* nothing more (no further call, no yield); the failed call is the last;
\* every message called for before it has the content generate returned;
\* the message of the failed call and every message after it, in its item,
\* in later items and in later batches, is as it came.
C3_RewriterNonTransactional ==
    (unit = "rewrite" /\ exc = "GenerateError") =>
        /\ pc = "raised"
        /\ ~ENABLED NextRewrite
        /\ Len(calls) >= 1
        /\ calls[Len(calls)].result = "failed"
        /\ Len(out) = calls[Len(calls)].at[1] - 1
        /\ \A i \in 1..(Len(calls) - 1) :
            /\ calls[i].result \in Generations
            /\ MessageAt(inputs, calls[i].at)["content"] = calls[i].result
        /\ \A p \in Positions(orig) :
            (p = calls[Len(calls)].at \/ Before(calls[Len(calls)].at, p))
                => MessageAt(inputs, p) = MessageAt(orig, p)

\* generate failed on the second targeted message of a batch, after the
\* first was rewritten and with a targeted message left in a later item
C3_Witness ==
    /\ unit = "rewrite" /\ exc = "GenerateError"
    /\ Len(calls) = 2
    /\ calls[1].at[1] = calls[2].at[1]
    /\ MessageAt(inputs, calls[1].at)["content"] = <<"g">>
    /\ \E p \in Positions(orig) :
        /\ Targeted(p)
        /\ p[1] = calls[2].at[1] /\ p[2] > calls[2].at[2]

----------------------------------------------------------------------------
(* Claims about FormatPlaintextChatTranscript and InsertMessage.           *)

\* every (batch, item) position of an input
ItemPositions(inp) ==
    { <<bi, ri>> \in (1..Len(inp)) \X (1..(MaxFormatSize + MaxInsertSize)) :
        ri <= Len(inp[bi]) }

\* the loop body has run to its end for the item at q
Processed(q) == q[1] < b \/ (q[1] = b /\ q[2] < r)

RECURSIVE Split(_, _)
\* the pieces of s between the occurrences of the character sep
Split(s, sep) ==
    IF \A i \in 1..Len(s) : s[i] # sep THEN <<s>>
    ELSE LET i == CHOOSE j \in 1..Len(s) :
                      s[j] = sep /\ \A k \in 1..(j - 1) : s[k] # sep
         IN  <<SubSeq(s, 1, i - 1)>> \o Split(SubSeq(s, i + 1, Len(s)), sep)

HasNewline(s) == \E i \in 1..Len(s) : s[i] = "\n"

\* the transcript of the item at q has one line "<role>: <content>" per
\* message, in order, and does not end in a newline
OneLinePerMessage(q) ==
    LET msgs == orig[q[1]][q[2]]["messages"]
        transcript == inputs[q[1]][q[2]]["transcript"]
        lines == Split(transcript, "\n")
    IN  /\ Len(lines) = Len(msgs)
        /\ \A i \in 1..Len(msgs) :
              lines[i] = msgs[i]["role"] \o <<":", " ">> \o msgs[i]["content"]
        /\ transcript # <<>> => transcript[Len(transcript)] # "\n"

\* the item at q is as it came but for its transcript
RestUnchanged(q) ==
    LET before == orig[q[1]][q[2]]
        after == inputs[q[1]][q[2]]
    IN  /\ DOMAIN after = DOMAIN before \cup {"transcript"}
        /\ \A k \in DOMAIN before \ {"transcript"} : after[k] = before[k]

\* the statement of C8 as claimed: for every number of messages and every
\* role and content, the transcript splits on newline into one line per
\* message
C8_AsClaimed ==
    unit = "format" =>
        \A q \in ItemPositions(orig) :
            Processed(q) => OneLinePerMessage(q) /\ RestUnchanged(q)

\* C8: for an item with one or more messages whose roles and contents hold
\* no newline, the transcript split on newline has one line
\* "<role>: <content>" per message, in order, and no trailing newline; for
\* an item with no message the transcript is the empty string (one empty
\* line when split); messages and every other field are left as they came.
C8_FormatterShape ==
    unit = "format" =>
        \A q \in ItemPositions(orig) :
            Processed(q) =>
                LET msgs == orig[q[1]][q[2]]["messages"]
                IN  /\ RestUnchanged(q)
                    /\ msgs = <<>> =>
                          /\ inputs[q[1]][q[2]]["transcript"] = <<>>
                          /\ Split(inputs[q[1]][q[2]]["transcript"], "\n") = << <<>> >>
                    /\ ( /\ msgs # <<>>
                         /\ \A i \in 1..Len(msgs) :
                              ~HasNewline(msgs[i]["role"] \o msgs[i]["content"]) )
                          => OneLinePerMessage(q)

\* an item with three messages, one of them with empty content, has been
\* given its three-line transcript
C8_Witness ==
    /\ unit = "format"
    /\ \E q \in ItemPositions(orig) :
        /\ Processed(q)
        /\ orig[q[1]][q[2]]["messages"] =
             << [role |-> <<"u">>, content |-> <<"x">>],
                [role |-> <<"a">>, content |-> <<>>],
                [role |-> <<"u">>, content |-> <<"x">>] >>
        /\ inputs[q[1]][q[2]]["transcript"] =
             <<"u", ":", " ", "x", "\n", "a", ":", " ", "\n", "u", ":", " ", "x">>

\* where the claims expect the new message, 0-based, in a list of length L
ExpectedPosition(L) ==
    IF index >= 0 THEN (IF index <= L THEN index ELSE L)
    ELSE (IF L + index > 0 THEN L + index ELSE 0)

\* C5: an item InsertMessage.process has handled has one message more than
\* it came with; the new message {role, content of the item} is at 0-based
\* position index for index in [0, L], L for index > L and max(0, L + index)
\* for a negative index; the messages it came with are all there, in order.
C5_InserterPosition ==
    unit = "insert" =>
        \A q \in ItemPositions(orig) :
            Processed(q) =>
                LET before == orig[q[1]][q[2]]["messages"]
                    after == inputs[q[1]][q[2]]["messages"]
                    L == Len(before)
                    pos == ExpectedPosition(L)
                IN  /\ Len(after) = L + 1
                    /\ after[pos + 1] =
                         [role |-> <<"s">>, content |-> orig[q[1]][q[2]]["content"]]
                    /\ \A j \in 1..L :
                         after[IF j <= pos THEN j ELSE j + 1] = before[j]
                    /\ inputs[q[1]][q[2]]["content"] = orig[q[1]][q[2]]["content"]

\* index -1 on a list of three put the new message just before the former
\* last one
C5_Witness ==
    /\ unit = "insert" /\ index = 0 - 1
    /\ \E q \in ItemPositions(orig) :
        /\ Processed(q)
        /\ Len(orig[q[1]][q[2]]["messages"]) = 3
        /\ inputs[q[1]][q[2]]["messages"][3] = [role |-> <<"s">>, content |-> <<"c">>]
        /\ inputs[q[1]][q[2]]["messages"][4] = orig[q[1]][q[2]]["messages"][3]

\* the item at q lacks a field the running step requires of an item
LacksRequired(q) ==
    \/ unit = "format" /\ "messages" \notin DOMAIN orig[q[1]][q[2]]
    \/ unit = "insert" /\ {"messages", "content"} \ DOMAIN orig[q[1]][q[2]] # {}

\* the call has failed on a missing field of an item
RaisedOnItem ==
    /\ pc = "raised"
    /\ \/ unit = "format" /\ exc = "KeyError('messages')"
       \/ unit = "insert"

\* the statement of C10 as claimed: a call given an item that lacks a
\* required field fails, and when it has failed it has emitted no batch and
\* has left no item with a new transcript or messages list
C10_AsClaimed ==
    (unit \in {"format", "insert"} /\ \E q \in ItemPositions(orig) : LacksRequired(q)) =>
        /\ pc # "done"
        /\ pc = "raised" => (out = <<>> /\ inputs = orig)

\* C10: a call given an item that lacks a required field never ends
\* normally.  When it fails on such an item, that item is the first one
\* lacking a field; the batches before the item's batch have been emitted
\* and nothing more is; the items before it have their new transcript or
\* messages list; the item and every item after it are as they came.
C10_NoOutputFromOffendingBatch ==
    /\ (unit \in {"format", "insert"} /\ \E q \in ItemPositions(orig) : LacksRequired(q))
          => pc # "done"
    /\ (unit \in {"format", "insert"} /\ RaisedOnItem) =>
        /\ LacksRequired(<<b, r>>)
        /\ ~ENABLED (NextFormat \/ NextInsert)
        /\ Len(out) = b - 1
        /\ \A k \in 1..Len(out) : out[k] = inputs[k]
        /\ \A q \in ItemPositions(orig) :
            /\ Processed(q) =>
                /\ ~LacksRequired(q)
                /\ unit = "format" => "transcript" \in DOMAIN inputs[q[1]][q[2]]
                /\ unit = "insert" =>
                     Len(inputs[q[1]][q[2]]["messages"])
                       = Len(orig[q[1]][q[2]]["messages"]) + 1
            /\ ~Processed(q) => inputs[q[1]][q[2]] = orig[q[1]][q[2]]

\* InsertMessage failed on the second item of the second batch: one batch
\* was emitted and the first item of the failing batch has its new message
C10_Witness ==
    /\ unit = "insert" /\ RaisedOnItem
    /\ b = 2 /\ r = 2
    /\ Len(out) = 1 /\ Len(out[1]) = 1
    /\ Len(inputs[2][1]["messages"]) = Len(orig[2][1]["messages"]) + 1

\* the statement of C9 as claimed: a message with no content key makes
\* neither step fail (its content reads as the empty string), and
\* RewriteMessages never calls generate for a message with no role key and
\* leaves it as it came
C9_AsClaimed ==
    /\ unit \in {"format", "rewrite"} => exc # "KeyError('content')"
    /\ unit = "format" =>
        \A q \in ItemPositions(orig) :
            Processed(q) =>
                \A i \in 1..Len(orig[q[1]][q[2]]["messages"]) :
                    "content" \notin DOMAIN orig[q[1]][q[2]]["messages"][i] =>
                        Split(inputs[q[1]][q[2]]["transcript"], "\n")[i]
                          = orig[q[1]][q[2]]["messages"][i]["role"] \o <<":", " ">>
    /\ unit = "rewrite" =>
        \A p \in Positions(orig) :
            "role" \notin DOMAIN MessageAt(orig, p) =>
                /\ MessageAt(inputs, p) = MessageAt(orig, p)
                /\ \A i \in 1..Len(calls) : calls[i].at # p

----------------------------------------------------------------------------
(* Claims about DropEmpty.                                                 *)

\* the claims' notion of an empty value: None, or a string of nothing but
\* whitespace (the ints and lists of the model have a non-blank string form)
Blank(v) ==
    \/ v = [t |-> "None"]
    \/ v.t = "str" /\ \A i \in 1..Len(v.s) : v.s[i] \in {" ", "\t", "\n", "\r"}

\* the claims' rule for keeping an item
Survives(item) ==
    LET checked == IF columns.set
                   THEN {c \in DOMAIN item : \E i \in 1..Len(columns.cols) : columns.cols[i] = c}
                   ELSE DOMAIN item
    IN  \A c \in checked : ~Blank(item[c])

\* C4: DropEmpty.process yields one batch: the items of its input that have
\* no empty value in a checked column they hold (the configured columns, or
\* all of the item's when columns is unset), in their input order and
\* exactly as they came.  Configured columns an item does not hold are
\* skipped, and an item with nothing to check is kept.
C4_FilterAnyEmpty ==
    (unit = "filter" /\ pc = "done") =>
        /\ Len(out) = 1
        /\ out[1] = SelectSeq(orig[1], Survives)
        /\ inputs = orig

\* of three items the middle one was dropped for a whitespace-only value in
\* a configured column, and the last was kept although it lacks that column
C4_Witness ==
    /\ unit = "filter" /\ pc = "done"
    /\ columns = [set |-> TRUE, cols |-> <<"a">>]
    /\ Len(orig[1]) = 3
    /\ "a" \in DOMAIN orig[1][2]
    /\ orig[1][2]["a"] = [t |-> "str", s |-> <<" ", "\t">>]
    /\ "a" \notin DOMAIN orig[1][3]
    /\ out = << <<orig[1][1], orig[1][3]>> >>

----------------------------------------------------------------------------
(* Claims about SaveToJsonl.                                               *)

\* the text every line starts with: {"messages": followed by a space
LinePrefix == <<"{", "\"", "m", "e", "s", "s", "a", "g", "e", "s", "\"", ":", " ">>

\* text is one JSONL line holding body as the value of "messages"
IsLineOf(text, body) == text = LinePrefix \o body \o <<"}", "\n">>

\* the f.write calls made for item i of the batch
WritesFor(i) == {j \in 1..Len(calls) : calls[j].at = i}

\* C6: when an invocation of SaveToJsonl.process has ended, the file holds
\* exactly what that invocation wrote, whatever it held before: one line
\* starting {"messages": and ending in its only newline per item whose
\* messages value is there (present and not None), in batch order; and an
\* invocation on the batch of the invocation before it leaves the same file.
C6_WriterOverwrite ==
    (unit = "writer" /\ pc = "done") =>
        /\ file = Concat([j \in 1..Len(calls) |-> calls[j].text])
        /\ \A j \in 1..Len(calls) :
            LET text == calls[j].text
            IN  /\ Len(text) > Len(LinePrefix)
                /\ SubSeq(text, 1, Len(LinePrefix)) = LinePrefix
                /\ \A k \in 1..Len(text) : (text[k] = "\n") <=> (k = Len(text))
                /\ j < Len(calls) => calls[j].at < calls[j + 1].at
        /\ {calls[j].at : j \in 1..Len(calls)} =
             {i \in 1..Len(inputs[1]) :
                 /\ "messages" \in DOMAIN inputs[1][i]
                 /\ inputs[1][i]["messages"] # [t |-> "None"]}
        /\ (prev.has /\ prev.batch = inputs[1]) => file = prev.file
        /\ out = <<orig[1]>> /\ inputs = orig

\* a second invocation on another batch has ended: the file it found held
\* lines, and now holds other lines
C6_Witness ==
    /\ unit = "writer" /\ pc = "done"
    /\ prev.has /\ prev.file # <<>> /\ prev.batch # inputs[1]
    /\ file # <<>> /\ file # prev.file
    /\ Len(calls) = 2

\* the statement of C7 as claimed: no line exactly for the items with no
\* messages key; one line for a key that is present, whatever its value
\* (None included), a sequence as it is and any other value wrapped
C7_AsClaimed ==
    (unit = "writer" /\ pc # "idle") =>
        \A i \in 1..Len(inputs[1]) :
            i < r =>
                LET item == inputs[1][i]
                IN  /\ "messages" \notin DOMAIN item <=> WritesFor(i) = {}
                    /\ "messages" \in DOMAIN item =>
                        /\ Cardinality(WritesFor(i)) = 1
                        /\ \A j \in WritesFor(i) :
                            IsLineOf(calls[j].text,
                                IF item["messages"].t \in {"list", "tuple"}
                                THEN Dumps(item["messages"])
                                ELSE <<"[">> \o Dumps(item["messages"]) \o <<"]">>)

\* C7: SaveToJsonl.process writes no line for an item exactly when the item
\* has no messages key or its messages value is None; for any other value
\* it writes exactly one line, holding the value as it is when it is a list
\* and wrapped in a one-element list when it is anything else (a string, a
\* tuple).
C7_WriterLineRule ==
    (unit = "writer" /\ pc # "idle") =>
        \A i \in 1..Len(inputs[1]) :
            i < r =>
                LET item == inputs[1][i]
                    absent == \/ "messages" \notin DOMAIN item
                              \/ item["messages"] = [t |-> "None"]
                IN  /\ absent <=> WritesFor(i) = {}
                    /\ ~absent =>
                        /\ Cardinality(WritesFor(i)) = 1
                        /\ \A j \in WritesFor(i) :
                            IsLineOf(calls[j].text,
                                IF item["messages"].t = "list"
                                THEN Dumps(item["messages"])
                                ELSE <<"[">> \o Dumps(item["messages"]) \o <<"]">>)

\* a batch of a string value and a None value was written: one line with
\* the string wrapped in a list, and nothing for the None
C7_Witness ==
    /\ unit = "writer" /\ pc = "done"
    /\ Len(inputs[1]) = 2
    /\ inputs[1][1] = [messages |-> [t |-> "str", s |-> <<"h", "\n">>]]
    /\ inputs[1][2] = [messages |-> [t |-> "None"]]
    /\ file = LinePrefix \o <<"[", "\"", "h", "\\", "n", "\"", "]", "}", "\n">>

====
